---- MODULE Spec2Model ----
(***************************************************************************)
(* The query pipeline of opaq (src/query.go, src/client.go): one           *)
(* invocation of Proc.Cmd -> Proc.query, from configuration validation to  *)
(* the exit decision.                                                      *)
(*                                                                         *)
(* Texts that the code inspects character by character (headers and        *)
(* metadata entries) are sequences of one-character strings.  Document     *)
(* texts (the input stream, request and response bodies, the output) are   *)
(* syntax trees, records tagged by t: null, bool, number, string, array,   *)
(* object.  Go values (interface{}) are records tagged by their dynamic Go *)
(* type.  A number is the non-negative integer hi * 2^27 + lo.             *)
(***************************************************************************)
EXTENDS Integers, Sequences, FiniteSets, TLC

\* ----------------------------------------------------------------- bounds
\* Longest input stream (number of top-level documents).
MaxDocs == 2
\* Most maps on the heap of the library client (the map of the Source, the
\* policy of the client and the maps Sources has returned).
MaxMaps == 3

\* ------------------------------------------------------------ text values
TNull == [t |-> "null"]
TBool(b) == [t |-> "bool", b |-> b]
TNum(hi, lo) == [t |-> "number", hi |-> hi, lo |-> lo]
TStr(s) == [t |-> "string", s |-> s]
TArr(q) == [t |-> "array", q |-> q]
\* An object / YAML mapping: a function from key nodes (scalars) to nodes.
TObj(e) == [t |-> "object", e |-> e]
\* The YAML float scalar .inf; JSON has no such token.
TInf == [t |-> "inf"]
\* Bytes that are no document of either format.
Malformed == [t |-> "malformed"]

\* The function with the empty domain (an empty Go map, an empty object).
EmptyFcn == <<>>

\* -------------------------------------------------------------- Go values
GoNil == [t |-> "nil"]
GoBool(b) == [t |-> "bool", b |-> b]
GoFloat64(hi, lo) == [t |-> "float64", hi |-> hi, lo |-> lo]
GoInt(hi, lo) == [t |-> "int", hi |-> hi, lo |-> lo]
GoString(s) == [t |-> "string", s |-> s]
\* float64(+Inf), the value yaml.v2 decodes .inf into.
GoInf == [t |-> "float64(+Inf)"]
\* []interface{}; a nil slice is a slice of length zero that encodes as null.
GoSlice(q) == [t |-> "[]interface{}", q |-> q, isnil |-> FALSE]
GoNilSlice == [t |-> "[]interface{}", q |-> <<>>, isnil |-> TRUE]
\* map[string]interface{}: a function from strings to Go values.
GoMap(m) == [t |-> "map[string]interface{}", m |-> m]
\* map[string]string: a function from strings to strings.
GoStringMap(sm) == [t |-> "map[string]string", sm |-> sm]
\* map[interface{}]interface{} (yaml.v2): a function from Go scalars.
GoIfaceMap(e) == [t |-> "map[interface{}]interface{}", e |-> e]
\* No value assigned yet.
Unset == [t |-> "unset"]

\* float64(hi * 2^27 + lo): integers below 2^53 are exact; from 2^53 to
\* 2^54 the spacing is 2 and ties round to the even mantissa.
RoundFloat64(hi, lo) ==
    IF hi < 2^26 \/ lo % 2 = 0
    THEN [hi |-> hi, lo |-> lo]
    ELSE IF ((lo - 1) \div 2) % 2 = 0
         THEN [hi |-> hi, lo |-> lo - 1]
         ELSE IF lo + 1 = 2^27
              THEN [hi |-> hi + 1, lo |-> 0]
              ELSE [hi |-> hi, lo |-> lo + 1]

RECURSIVE JSONWellFormed(_)
\* A text is a JSON value: no malformed part, object keys are strings.
JSONWellFormed(x) ==
    CASE x.t \in {"malformed", "inf"} -> FALSE
      [] x.t = "array" -> \A i \in 1..Len(x.q) : JSONWellFormed(x.q[i])
      [] x.t = "object" ->
            \A k \in DOMAIN x.e : k.t = "string" /\ JSONWellFormed(x.e[k])
      [] OTHER -> TRUE

RECURSIVE YAMLWellFormed(_)
\* A text is a YAML document: no malformed part (keys may be any scalar).
YAMLWellFormed(x) ==
    CASE x.t = "malformed" -> FALSE
      [] x.t = "array" -> \A i \in 1..Len(x.q) : YAMLWellFormed(x.q[i])
      [] x.t = "object" -> \A k \in DOMAIN x.e : YAMLWellFormed(x.e[k])
      [] OTHER -> TRUE

RECURSIVE JSONUnmarshal(_)
\* encoding/json decoding a well-formed JSON value into interface{}.
JSONUnmarshal(x) ==
    CASE x.t = "null" -> GoNil
      [] x.t = "bool" -> GoBool(x.b)
      [] x.t = "number" ->
            LET r == RoundFloat64(x.hi, x.lo) IN GoFloat64(r.hi, r.lo)
      [] x.t = "string" -> GoString(x.s)
      [] x.t = "array" -> GoSlice([i \in 1..Len(x.q) |-> JSONUnmarshal(x.q[i])])
      [] x.t = "object" ->
            GoMap([s \in {k.s : k \in DOMAIN x.e} |->
                      JSONUnmarshal(x.e[TStr(s)])])

\* yaml.v2 decoding a scalar node.
YAMLScalar(x) ==
    CASE x.t = "null" -> GoNil
      [] x.t = "bool" -> GoBool(x.b)
      [] x.t = "number" -> GoInt(x.hi, x.lo)
      [] x.t = "string" -> GoString(x.s)
      [] x.t = "inf" -> GoInf

\* The key node that yaml.v2 decoded into the Go scalar g.
YAMLKeyNode(g) ==
    CASE g.t = "nil" -> TNull
      [] g.t = "bool" -> TBool(g.b)
      [] g.t = "int" -> TNum(g.hi, g.lo)
      [] g.t = "string" -> TStr(g.s)

RECURSIVE YAMLUnmarshal(_)
\* yaml.v2 decoding a document into interface{}: every mapping becomes a
\* map[interface{}]interface{}, whatever its keys.
YAMLUnmarshal(x) ==
    CASE x.t = "array" -> GoSlice([i \in 1..Len(x.q) |-> YAMLUnmarshal(x.q[i])])
      [] x.t = "object" ->
            GoIfaceMap([g \in {YAMLScalar(k) : k \in DOMAIN x.e} |->
                           YAMLUnmarshal(x.e[YAMLKeyNode(g)])])
      [] OTHER -> YAMLScalar(x)

RECURSIVE Marshalable(_)
\* json.Marshal succeeds: no map[interface{}]interface{} and no infinite
\* float anywhere.
Marshalable(v) ==
    CASE v.t \in {"map[interface{}]interface{}", "float64(+Inf)"} -> FALSE
      [] v.t = "[]interface{}" -> \A i \in 1..Len(v.q) : Marshalable(v.q[i])
      [] v.t = "map[string]interface{}" -> \A s \in DOMAIN v.m : Marshalable(v.m[s])
      [] OTHER -> TRUE

RECURSIVE JSONMarshal(_)
\* encoding/json encoding a Go value (Marshalable) as a JSON value.
JSONMarshal(v) ==
    CASE v.t = "nil" -> TNull
      [] v.t = "bool" -> TBool(v.b)
      [] v.t \in {"float64", "int"} -> TNum(v.hi, v.lo)
      [] v.t = "string" -> TStr(v.s)
      [] v.t = "[]interface{}" ->
            IF v.isnil THEN TNull
            ELSE TArr([i \in 1..Len(v.q) |-> JSONMarshal(v.q[i])])
      [] v.t = "map[string]interface{}" ->
            TObj([k \in {TStr(s) : s \in DOMAIN v.m} |-> JSONMarshal(v.m[k.s])])
      [] v.t = "map[string]string" ->
            TObj([k \in {TStr(s) : s \in DOMAIN v.sm} |-> TStr(v.sm[k.s])])

\* ------------------------------------------------------- character texts
\* Perl class \w of Go's regexp: [0-9A-Za-z_].
WordChars ==
    {"0", "1", "2", "3", "4", "5", "6", "7", "8", "9", "_",
     "a", "b", "c", "d", "e", "f", "g", "h", "i", "j", "k", "l", "m",
     "n", "o", "p", "q", "r", "s", "t", "u", "v", "w", "x", "y", "z",
     "A", "B", "C", "D", "E", "F", "G", "H", "I", "J", "K", "L", "M",
     "N", "O", "P", "Q", "R", "S", "T", "U", "V", "W", "X", "Y", "Z"}

\* unicode.IsSpace on the characters of the model.
SpaceChars == {" ", "\t", "\n", "\r"}

RECURSIVE Str(_)
\* string(chars): the Go string made of the characters in order.
Str(cs) == IF cs = <<>> THEN "" ELSE Head(cs) \o Str(Tail(cs))

\* strings.Index(cs, c) + 1: the first position of c, 0 when absent.
Index(cs, c) ==
    IF \E i \in 1..Len(cs) : cs[i] = c
    THEN CHOOSE i \in 1..Len(cs) : cs[i] = c /\ \A j \in 1..(i - 1) : cs[j] # c
    ELSE 0

RECURSIVE Split(_, _)
\* strings.Split(cs, c): the pieces between the occurrences of c.
Split(cs, c) ==
    LET p == Index(cs, c) IN
    IF p = 0 THEN <<cs>>
    ELSE <<SubSeq(cs, 1, p - 1)>> \o Split(SubSeq(cs, p + 1, Len(cs)), c)

RECURSIVE TrimLeft(_)
TrimLeft(cs) ==
    IF cs # <<>> /\ Head(cs) \in SpaceChars THEN TrimLeft(Tail(cs)) ELSE cs

RECURSIVE TrimRight(_)
TrimRight(cs) ==
    IF cs # <<>> /\ cs[Len(cs)] \in SpaceChars
    THEN TrimRight(SubSeq(cs, 1, Len(cs) - 1)) ELSE cs

\* strings.TrimSpace.
TrimSpace(cs) == TrimRight(TrimLeft(cs))

\* regexp `^<class>+<sep>.+$`: one or more class characters, the separator,
\* then one or more characters other than newline, up to the end of text.
MatchKeySepRest(cs, class, sep) ==
    \E p \in 2..(Len(cs) - 1) :
        /\ cs[p] = sep
        /\ \A i \in 1..(p - 1) : cs[i] \in class
        /\ \A i \in (p + 1)..Len(cs) : cs[i] # "\n"

\* `^[\w-]+:.+$` (query.go, header rule).
MatchHeader(hdr) == MatchKeySepRest(hdr, WordChars \cup {"-"}, ":")

\* `^[\w-_]+=.+$` (query.go, metadata rule).
MatchMetaData(meta) == MatchKeySepRest(meta, WordChars \cup {"-", "_"}, "=")

\* ------------------------------------------------------------------ URLs
\* The URL texts of the model.
NoURL == ""
WordURL == "invalid_url"
HostURL == "opa.example.com/xxx"
AbsoluteURL == "https://opa.example.com/xxx"

\* is.URL (govalidator.IsURL): the scheme is optional in its pattern; a text
\* with neither a host nor a dot in its path is refused.
IsURL(url) == url \in {HostURL, AbsoluteURL}

\* --------------------------------------------------------- queryConfig
\* queryConfig.Validate: "ok", or the flag named by the first rule violated
\* (each is returned wrapped in ErrInvalidConfiguration).
Validate(c) ==
    IF c.URL = "" \/ ~IsURL(c.URL) THEN "--url"
    ELSE IF c.Format = "" \/ c.Format \notin {"json", "yaml"} THEN "--format"
    ELSE IF \E i \in 1..Len(c.Headers) :
               c.Headers[i] = <<>> \/ ~MatchHeader(c.Headers[i])
         THEN "--header"
    ELSE IF Len(c.MetaData) > 0 /\ c.MetaDataField = "" THEN "--metadata-field"
    ELSE IF Len(c.MetaData) > 0 /\
            \E i \in 1..Len(c.MetaData) :
               c.MetaData[i] = <<>> \/ ~MatchMetaData(c.MetaData[i])
         THEN "--metadata"
    ELSE "ok"

\* ------------------------------------------------------------- readData
RECURSIVE FixPanics(_)
\* fixInterfaceMap panics: the assertion k.(string) meets a key that is not
\* a string, in the value or anywhere the recursion goes.
FixPanics(i) ==
    CASE i.t = "map[interface{}]interface{}" ->
            \E k \in DOMAIN i.e : k.t # "string" \/ FixPanics(i.e[k])
      [] i.t = "[]interface{}" -> \E n \in 1..Len(i.q) : FixPanics(i.q[n])
      [] OTHER -> FALSE

RECURSIVE fixInterfaceMap(_)
\* fixInterfaceMap where it does not panic.
fixInterfaceMap(i) ==
    CASE i.t = "map[interface{}]interface{}" ->
            GoMap([s \in {k.s : k \in DOMAIN i.e} |->
                      fixInterfaceMap(i.e[GoString(s)])])
      [] i.t = "[]interface{}" ->
            [i EXCEPT !.q = [n \in 1..Len(i.q) |-> fixInterfaceMap(i.q[n])]]
      [] OTHER -> i

\* The documents of the stream before the first one the decoder refuses.
WellFormed(doc, format) ==
    IF format = "json" THEN JSONWellFormed(doc) ELSE YAMLWellFormed(doc)

\* Position of the first document the decoder refuses, 0 when none.
FirstRefused(docs, format) ==
    IF \E i \in 1..Len(docs) : ~WellFormed(docs[i], format)
    THEN CHOOSE i \in 1..Len(docs) :
            /\ ~WellFormed(docs[i], format)
            /\ \A j \in 1..(i - 1) : WellFormed(docs[j], format)
    ELSE 0

\* The decode loops of readData over the documents of the stream:
\* [kind |-> "ok", value], [kind |-> "error", path], or [kind |-> "panic"].
\* The yaml loop fixes each document as it is decoded, so a panic comes
\* before the error of a later malformed document.
Decode(docs, format, input) ==
    LET bad == FirstRefused(docs, format)
        n == IF bad = 0 THEN Len(docs) ELSE bad - 1
        raw == [i \in 1..n |->
                   IF format = "json" THEN JSONUnmarshal(docs[i])
                   ELSE YAMLUnmarshal(docs[i])]
        panics == format = "yaml" /\ \E i \in 1..n : FixPanics(raw[i])
        results == [i \in 1..n |->
                       IF format = "json" THEN raw[i] ELSE fixInterfaceMap(raw[i])]
    IN  IF panics THEN [kind |-> "panic"]
        ELSE IF bad # 0
             THEN [kind |-> "error",
                   path |-> IF format = "json" THEN input ELSE ""]
        ELSE IF n = 1 THEN [kind |-> "ok", value |-> results[1]]
        ELSE IF n = 0 THEN [kind |-> "ok", value |-> GoNilSlice]
        ELSE [kind |-> "ok", value |-> GoSlice(results)]

\* isEmpty taking every zero value (false, 0, "") for empty as well.
isEmptyZeroValue(out) ==
    CASE out.t = "nil" -> TRUE
      [] out.t = "bool" -> ~out.b
      [] out.t \in {"float64", "int"} -> out.hi = 0 /\ out.lo = 0
      [] out.t = "string" -> out.s = ""
      [] out.t = "[]interface{}" -> Len(out.q) = 0
      [] out.t = "map[string]interface{}" -> DOMAIN out.m = {}
      [] OTHER -> FALSE

\* --------------------------------------------------------------- isEmpty
\* isEmpty: nil, or a map or slice of length zero (reflect.Kind switch; no
\* pointer reaches it).
isEmpty(out) ==
    CASE out.t = "nil" -> TRUE
      [] out.t = "[]interface{}" -> Len(out.q) = 0
      [] out.t = "map[string]interface{}" -> DOMAIN out.m = {}
      [] out.t = "map[string]string" -> DOMAIN out.sm = {}
      [] out.t = "map[interface{}]interface{}" -> DOMAIN out.e = {}
      [] OTHER -> FALSE

\* ---------------------------------------------------------------- errors
\* error values: the sentinel they wrap (or the origin of an unnamed wrap)
\* and the values attached with With, one record for each key.
NoError == [kind |-> "nil", with |-> {}]
Error(kind, with) == [kind |-> kind, with |-> with]
\* With(key, value) for a string, an int, a body text and a Go value.
WithString(key, s) == [key |-> key, s |-> s]
WithInt(key, n) == [key |-> key, n |-> n]
WithBody(key, x) == [key |-> key, x |-> x]
WithValue(key, v) == [key |-> key, v |-> v]
ErrInvalidConfiguration == "invalid configuration"
ErrInvalidInput == "invalid input"
ErrRequestFailed == "request to OPA server failed"
ErrUnexpectedResp == "unexpected response from OPA server"
ErrExitWithNonZero == "exit with non-zero"

\* http.StatusOK
StatusOK == 200

\* The status test of Client.Query, with a variant that lets every 2xx pass.
IsStatusAny2xx(code) == code \div 100 = 2
IsStatusOK(code) == code = StatusOK

\* What ioutil.ReadAll hands back of a response body: all of it, or the
\* part read before the read failed.
Truncated == [t |-> "truncated"]
ReadAll(a) == IF a.readOK THEN a.body ELSE Truncated

\* ------------------------------------------------------------- compose
RECURSIVE MetadataMapLastCut(_)
\* MetadataMap that cuts each entry at its last "=".
MetadataMapLastCut(entries) ==
    IF entries = <<>> THEN EmptyFcn
    ELSE LET n == Len(entries)
             meta == entries[n]
             p == CHOOSE i \in 1..Len(meta) :
                     meta[i] = "=" /\ \A j \in (i + 1)..Len(meta) : meta[j] # "="
             key == Str(SubSeq(meta, 1, p - 1))
             value == Str(SubSeq(meta, p + 1, Len(meta)))
             before == MetadataMapLastCut(SubSeq(entries, 1, n - 1))
         IN  [k \in DOMAIN before \cup {key} |->
                 IF k = key THEN value ELSE before[k]]

RECURSIVE MetadataMap(_)
\* query.go, the loop over cfg.MetaData: each entry is cut at its first "=",
\* later entries overwrite earlier ones with the same key.
MetadataMap(entries) ==
    IF entries = <<>> THEN EmptyFcn
    ELSE LET n == Len(entries)
             meta == entries[n]
             p == Index(meta, "=")
             key == Str(SubSeq(meta, 1, p - 1))
             value == Str(SubSeq(meta, p + 1, Len(meta)))
             before == MetadataMap(SubSeq(entries, 1, n - 1))
         IN  [k \in DOMAIN before \cup {key} |->
                 IF k = key THEN value ELSE before[k]]

\* MapSet that leaves a key already present as it is.
MapSetKeepExisting(m, key, value) ==
    [k \in DOMAIN m \cup {key} |-> IF k \in DOMAIN m THEN m[k] ELSE value]

\* root[key] = value on a map[string]interface{}.
MapSet(m, key, value) ==
    [k \in DOMAIN m \cup {key} |-> IF k = key THEN value ELSE m[k]]

\* MetadataPresent when the (empty) metadata map is always made.
MetadataAlways(c) == TRUE

\* len(cfg.MetaData) > 0: the metadata map is made.
MetadataPresent(c) == Len(c.MetaData) > 0

\* inputData.(map[string]interface{}) succeeds.
IsObject(v) == v.t = "map[string]interface{}"

\* Compose that sends data that is no object as it is, without the metadata,
\* instead of refusing it.
ComposeUnchecked(c, inputData) ==
    LET present == MetadataPresent(c)
        metadata == GoStringMap(MetadataMap(c.MetaData))
    IN  IF c.DataField = ""
        THEN IF present /\ IsObject(inputData)
             THEN [ok |-> TRUE,
                   data |-> GoMap(MapSet(inputData.m, c.MetaDataField, metadata))]
             ELSE [ok |-> TRUE, data |-> inputData]
        ELSE LET root == MapSet(EmptyFcn, c.DataField, inputData)
             IN  [ok |-> TRUE,
                  data |-> GoMap(IF present
                                 THEN MapSet(root, c.MetaDataField, metadata)
                                 ELSE root)]

\* query.go, the composition of the data sent: [ok |-> FALSE] when metadata
\* is to be injected into data that is no map[string]interface{}.
Compose(c, inputData) ==
    LET present == MetadataPresent(c)
        metadata == GoStringMap(MetadataMap(c.MetaData))
    IN  IF c.DataField = ""
        THEN IF present
             THEN IF ~IsObject(inputData)
                  THEN [ok |-> FALSE]
                  ELSE [ok |-> TRUE,
                        data |-> GoMap(MapSet(inputData.m, c.MetaDataField, metadata))]
             ELSE [ok |-> TRUE, data |-> inputData]
        ELSE LET root == MapSet(EmptyFcn, c.DataField, inputData)
             IN  [ok |-> TRUE,
                  data |-> GoMap(IF present
                                 THEN MapSet(root, c.MetaDataField, metadata)
                                 ELSE root)]

\* ---------------------------------------------------------------- headers
LowerCase == <<"a", "b", "c", "d", "e", "f", "g", "h", "i", "j", "k", "l", "m",
               "n", "o", "p", "q", "r", "s", "t", "u", "v", "w", "x", "y", "z">>
UpperCase == <<"A", "B", "C", "D", "E", "F", "G", "H", "I", "J", "K", "L", "M",
               "N", "O", "P", "Q", "R", "S", "T", "U", "V", "W", "X", "Y", "Z">>
ToUpper(ch) ==
    IF \E i \in 1..Len(LowerCase) : LowerCase[i] = ch
    THEN UpperCase[CHOOSE i \in 1..Len(LowerCase) : LowerCase[i] = ch] ELSE ch
ToLower(ch) ==
    IF \E i \in 1..Len(UpperCase) : UpperCase[i] = ch
    THEN LowerCase[CHOOSE i \in 1..Len(UpperCase) : UpperCase[i] = ch] ELSE ch

\* textproto.CanonicalMIMEHeaderKey on a name of token characters: upper
\* case at the start and after each hyphen, lower case elsewhere; a name
\* with a character that is no token character is left as it is.
CanonicalMIMEHeaderKey(cs) ==
    IF \E i \in 1..Len(cs) : cs[i] \notin WordChars \cup {"-"} THEN cs
    ELSE [i \in 1..Len(cs) |->
             IF i = 1 \/ cs[i - 1] = "-" THEN ToUpper(cs[i]) ELSE ToLower(cs[i])]

\* http.Header.Add on the header list (name and value pairs in order), with
\* a variant that replaces the values of the name as http.Header.Set does.
HeaderSet(headers, name, value) ==
    LET key == Str(CanonicalMIMEHeaderKey(name))
        Other(h) == h.name # key
    IN  Append(SelectSeq(headers, Other), [name |-> key, value |-> Str(value)])
HeaderAdd(headers, name, value) ==
    Append(headers, [name |-> Str(CanonicalMIMEHeaderKey(name)), value |-> Str(value)])

RECURSIVE RequestHeaders(_)
\* query.go, the loop over cfg.Headers: strings.Split at every ":" and the
\* first two pieces, trimmed.
RequestHeaders(hdrs) ==
    IF hdrs = <<>> THEN <<>>
    ELSE LET n == Len(hdrs)
             h == Split(hdrs[n], ":")
         IN  HeaderAdd(RequestHeaders(SubSeq(hdrs, 1, n - 1)),
                       TrimSpace(h[1]), TrimSpace(h[2]))

\* ------------------------------------------------------------ the client
\* json.Marshal(&opaRequest{Input: data}), with a variant that sends the
\* payload without the envelope.
RequestBodyBare(data) == JSONMarshal(data)
RequestBody(data) == TObj([k \in {TStr("input")} |-> JSONMarshal(data)])

\* A response body as read: the bytes are a JSON value the envelope struct
\* accepts (an object, or null which leaves it untouched); the variant
\* accepts every JSON value.
EnvelopeParsesAnyJSON(raw) == JSONWellFormed(raw)
EnvelopeParses(raw) == JSONWellFormed(raw) /\ raw.t \in {"object", "null"}

\* EnvelopeResult that takes a body without "result" for the result itself.
EnvelopeResultWholeBody(raw) ==
    IF raw.t = "object" /\ TStr("result") \in DOMAIN raw.e
    THEN JSONUnmarshal(raw.e[TStr("result")])
    ELSE JSONUnmarshal(raw)

\* opaResp.Result after json.Unmarshal(raw, &opaResp).
EnvelopeResult(raw) ==
    IF raw.t = "object" /\ TStr("result") \in DOMAIN raw.e
    THEN JSONUnmarshal(raw.e[TStr("result")])
    ELSE GoNil

\* client.go, from the marshal of the result to the unmarshal into out.
ResultInto(result) == JSONUnmarshal(JSONMarshal(result))

\* ------------------------------------------------------------------ state
VARIABLES
    cfg,        \* queryConfig, as the flags set it
    stream,     \* the documents of the input source (stdin or the file)
    fs,         \* what the file system and the output stream allow
    httpClient, \* Proc.httpClient: what Do answers
    pc,         \* position in Cmd / query
    inputData,  \* query: inputData
    data,       \* query: data, the payload handed to Client.Query
    calls,      \* number of calls of httpClient.Do
    request,    \* the request handed to httpClient.Do
    out,        \* query: out
    isempty,    \* the value isEmpty(out) returned at the exit decision
    stdinRead,  \* Proc.stdin has been read
    opened,     \* paths opened or created so far
    handles,    \* the file handles acquired so far, by path: open or closed
    stdout,     \* documents written to Proc.stdout
    outFile,    \* the output file: untouched, or created with its documents
    err,        \* the error query returned
    logged,     \* Cmd wrote an error-level log entry
    stages,     \* the steps taken so far, in order
    exitStatus  \* process exit status, -1 while running

\* The library package opaq: Go maps are references into a heap of maps.
VARIABLES
    heap,       \* the map[string]string values allocated so far, by reference
    src,        \* the map the Source function of the caller returns (a reference)
    client,     \* the Client New returned: its policy (a reference)
    newErr,     \* the error New returned
    sources     \* the maps Client.Sources has returned (references)

libVars == <<heap, src, client, newErr, sources>>

vars == <<cfg, stream, fs, httpClient, pc, inputData, data, calls, request, out,
          isempty, stdinRead, opened, handles, stdout, outFile, err, logged,
          stages, exitStatus, libVars>>

\* ----------------------------------------------------------------- inputs
\* Header flags: "X-a: A", "X A", "X:A:B", "content-type: text".
HdrToken == <<"X", "-", "a", ":", " ", "A">>
HdrNoColon == <<"X", " ", "A">>
HdrTwoColons == <<"X", ":", "A", ":", "B">>
HdrContentType == <<"c", "o", "n", "t", "e", "n", "t", "-", "t", "y", "p", "e", ":",
                    " ", "t", "e", "x", "t">>
HeaderLists == {<<>>, <<HdrToken>>, <<HdrNoColon>>, <<HdrToken, HdrTwoColons>>,
                <<HdrContentType, HdrToken>>}

\* Metadata flags: "k=v", "k=w", "k", "j=v=w".
MetaKV == <<"k", "=", "v">>
MetaKW == <<"k", "=", "w">>
MetaNoEq == <<"k">>
MetaTwoEq == <<"j", "=", "v", "=", "w">>
MetaDataLists == {<<>>, <<MetaKV>>, <<MetaNoEq>>, <<MetaKV, MetaKW>>, <<MetaTwoEq, MetaKV>>}

\* Documents: {"user":"blue"}, {"user":"blue","metadata":"old"}, 5,
\* 9007199254740993 (2^53 + 1), ["blue"], {}, and the YAML documents
\* {1: "a"}, [{true: "a"}], {"color": {"shade": "blue"}}.
DocUser == TObj([k \in {TStr("user")} |-> TStr("blue")])
DocUserMeta ==
    TObj([k \in {TStr("user"), TStr("metadata")} |->
             IF k.s = "user" THEN TStr("blue") ELSE TStr("old")])
DocFive == TNum(0, 5)
DocBig == TNum(2^26, 1)
DocList == TArr(<<TStr("blue")>>)
DocEmpty == TObj(EmptyFcn)
DocIntKey == TObj([k \in {TNum(0, 1)} |-> TStr("a")])
DocBoolKeyInList == TArr(<<TObj([k \in {TBool(TRUE)} |-> TStr("a")])>>)
DocNested ==
    TObj([k \in {TStr("color")} |-> TObj([j \in {TStr("shade")} |-> TStr("blue")])])
\* The YAML document {"ratio": .inf}.
DocInf == TObj([k \in {TStr("ratio")} |-> TInf])

\* All sequences over items of length at most n.
RECURSIVE SeqsUpTo(_, _)
SeqsUpTo(items, n) ==
    IF n = 0 THEN {<<>>}
    ELSE LET shorter == SeqsUpTo(items, n - 1)
         IN  shorter \cup {Append(q, x) : q \in {r \in shorter : Len(r) = n - 1}, x \in items}

\* Results the server may send, and the bodies around them.
Results ==
    {TNull, TBool(FALSE), TNum(0, 0), TStr(""), TArr(<<>>), DocEmpty,
     TObj([k \in {TStr("allow")} |-> TBool(TRUE)]), DocBig, DocList,
     TArr(<<DocBig>>)}
Envelope(x) == TObj([k \in {TStr("result")} |-> x])
\* What httpClient.Do may answer: an error (of the network, or of the
\* context of the request), or a status with a body whose read succeeds or
\* fails.
Answers ==
    {[kind |-> "error", cause |-> c] :
        c \in {"connection refused", "context canceled", "context deadline exceeded"}}
    \cup {[kind |-> "response", status |-> StatusOK, body |-> Envelope(x), readOK |-> TRUE] :
             x \in Results}
    \cup {[kind |-> "response", status |-> st, body |-> b, readOK |-> r] :
             st \in {StatusOK, 201, 500},
             b \in {DocEmpty, Malformed, TArr(<<>>), TNull},
             r \in BOOLEAN}
AnswerAllow ==
    [kind |-> "response", status |-> StatusOK,
     body |-> Envelope(TObj([k \in {TStr("allow")} |-> TBool(TRUE)])), readOK |-> TRUE]

AllOK == [open |-> TRUE, create |-> TRUE, write |-> TRUE]

\* The flag defaults of Cmd, with a URL.
DefaultConfig ==
    [URL |-> AbsoluteURL, FailDefined |-> FALSE, FailUndefined |-> FALSE,
     Input |-> "-", Output |-> "-", Format |-> "json", Headers |-> <<>>,
     MetaData |-> <<>>, MetaDataField |-> "metadata", DataField |-> ""]

\* Configurations around the validation rules.
ValidationConfigs ==
    {[DefaultConfig EXCEPT !.URL = u, !.Format = f, !.Headers = h,
                           !.MetaData = m, !.MetaDataField = mf] :
        u \in {NoURL, WordURL, HostURL, AbsoluteURL},
        f \in {"json", "yaml", "jsonnet", ""},
        h \in HeaderLists, m \in MetaDataLists, mf \in {"", "metadata"}}

\* Configurations around the composition rules.
ComposeConfigs ==
    {[DefaultConfig EXCEPT !.Format = f, !.MetaData = m, !.MetaDataField = mf,
                           !.DataField = df] :
        f \in {"json", "yaml"},
        m \in {<<>>, <<MetaKV>>, <<MetaKV, MetaKW>>},
        mf \in {"metadata", "metaverse"},
        df \in {"", "mydata", "metadata"}}

\* Configurations around the exit decision and the files.
ExitConfigs ==
    {[DefaultConfig EXCEPT !.FailDefined = fd, !.FailUndefined = fu,
                           !.Input = i, !.Output = o] :
        fd \in BOOLEAN, fu \in BOOLEAN,
        i \in {"-", "in.json"}, o \in {"-", "out.json"}}

\* The state after New and the flag parsing of Cmd, before query runs.
\* No client of the library package.
NoClient == [policy |-> 0]

\* The library package is not in use.
NoLibrary ==
    /\ heap = <<>>
    /\ src = 0
    /\ client = NoClient
    /\ newErr = ""
    /\ sources = {}

Start(c, docs, files, answer) ==
    /\ NoLibrary
    /\ cfg = c
    /\ stream = docs
    /\ fs = files
    /\ httpClient = answer
    /\ pc = "Validate"
    /\ inputData = Unset
    /\ data = Unset
    /\ calls = 0
    /\ request = Unset
    /\ out = GoNil
    /\ isempty = FALSE
    /\ stdinRead = FALSE
    /\ opened = {}
    /\ handles = EmptyFcn
    /\ stdout = <<>>
    /\ outFile = [state |-> "untouched", docs |-> <<>>]
    /\ err = NoError
    /\ logged = FALSE
    /\ stages = <<>>
    /\ exitStatus = -1

Init ==
    \/ \E c \in ValidationConfigs : Start(c, <<DocUser>>, AllOK, AnswerAllow)
    \/ \E c \in ComposeConfigs,
          docs \in SeqsUpTo({DocUserMeta, DocFive, DocList}, MaxDocs) :
          Start(c, docs, AllOK, AnswerAllow)
    \/ \E f \in {"json", "yaml"},
          docs \in SeqsUpTo({DocUser, DocBig, DocEmpty, DocIntKey, DocBoolKeyInList,
                             DocNested, DocInf, Malformed}, MaxDocs) :
          Start([DefaultConfig EXCEPT !.Format = f], docs, AllOK, AnswerAllow)
    \/ \E c \in ExitConfigs, answer \in Answers,
          files \in [open : BOOLEAN, create : BOOLEAN, write : BOOLEAN] :
          /\ (c.Input = "-" => files.open)
          /\ (c.Output = "-" => files.create)
          /\ Start(c, <<DocUser>>, files, answer)
    \/ \E f \in {"json", "yaml"}, o \in {"-", "out.json"},
          docs \in {<<Malformed>>, <<DocUser, Malformed>>, <<DocIntKey>>, <<DocUser>>},
          files \in [open : BOOLEAN, create : BOOLEAN, write : BOOLEAN] :
          /\ (o = "-" => files.create)
          /\ Start([DefaultConfig EXCEPT !.Format = f, !.Input = "in.json", !.Output = o],
                   docs, files, AnswerAllow)

\* ExitDecision that tests FailUndefined only when FailDefined is not set.
ExitDecisionEitherFlag(c, result) ==
    IF c.FailDefined
    THEN IF ~isEmpty(result) THEN Error(ErrExitWithNonZero, {}) ELSE NoError
    ELSE IF c.FailUndefined /\ isEmpty(result) THEN Error(ErrExitWithNonZero, {})
    ELSE NoError

\* ExitDecision with the two flags taken for each other.
ExitDecisionFlagsSwapped(c, result) ==
    IF c.FailUndefined /\ ~isEmpty(result) THEN Error(ErrExitWithNonZero, {})
    ELSE IF c.FailDefined /\ isEmpty(result) THEN Error(ErrExitWithNonZero, {})
    ELSE NoError

\* query.go, the two flag tests after the output is written: the error
\* query returns.
ExitDecision(c, result) ==
    IF c.FailDefined /\ ~isEmpty(result) THEN Error(ErrExitWithNonZero, {})
    ELSE IF c.FailUndefined /\ isEmpty(result) THEN Error(ErrExitWithNonZero, {})
    ELSE NoError

\* ---------------------------------------------------------------- actions
\* A variant of the step below that reads the input before it validates
\* the configuration.
QueryValidateAfterRead ==
    /\ pc = "Validate"
    /\ stages' = Append(stages, "Validate")
    /\ stdinRead' = (cfg.Input = "-")
    /\ opened' = IF cfg.Input = "-" THEN opened ELSE opened \cup {cfg.Input}
    /\ LET target == Validate(cfg) IN
       IF target # "ok"
       THEN /\ err' = Error(ErrInvalidConfiguration, {WithString("target", target)})
            /\ pc' = "Cmd"
       ELSE /\ pc' = "readData"
            /\ UNCHANGED err
    /\ UNCHANGED <<libVars, cfg, stream, fs, httpClient, inputData, data, calls, request, out,
                   isempty, handles, stdout, outFile, logged, exitStatus>>

\* A variant of the step below that goes on to readData after a refusal.
QueryValidateNoReturn ==
    /\ pc = "Validate"
    /\ stages' = Append(stages, "Validate")
    /\ LET target == Validate(cfg) IN
       /\ err' = IF target # "ok"
                 THEN Error(ErrInvalidConfiguration, {WithString("target", target)})
                 ELSE err
       /\ pc' = "readData"
    /\ UNCHANGED <<libVars, cfg, stream, fs, httpClient, inputData, data, calls, request,
                   out, isempty, stdinRead, opened, handles, stdout, outFile, logged,
                   exitStatus>>

\* query: cfg.Validate() and its early return.
QueryValidate ==
    /\ pc = "Validate"
    /\ stages' = Append(stages, "Validate")
    /\ LET target == Validate(cfg) IN
       IF target # "ok"
       THEN /\ err' = Error(ErrInvalidConfiguration, {WithString("target", target)})
            /\ pc' = "Cmd"
       ELSE /\ pc' = "readData"
            /\ UNCHANGED err
    /\ UNCHANGED <<libVars, cfg, stream, fs, httpClient, inputData, data, calls, request, out,
                   isempty, stdinRead, opened, handles, stdout, outFile, logged,
                   exitStatus>>

\* os.Open / os.Create: a handle on the path; f.Close() in the deferred
\* function, with a variant that never closes.
OpenFile(h, path) == [p \in DOMAIN h \cup {path} |-> IF p = path THEN "open" ELSE h[p]]
CloseFileNever(h, path) == h
CloseFile(h, path) == [h EXCEPT ![path] = "closed"]

\* query: x.readData(cfg.Input, cfg.Format), with the open and the deferred
\* close of the input file.  A panic of fixInterfaceMap ends the process.
QueryReadData ==
    /\ pc = "readData"
    /\ stages' = Append(stages, "readData")
    /\ IF cfg.Input # "-" /\ ~fs.open
       THEN /\ err' = Error("os.Open", {WithString("path", cfg.Input)})
            /\ pc' = "Cmd"
            /\ UNCHANGED <<inputData, stdinRead, opened, handles, exitStatus>>
       ELSE LET r == Decode(stream, cfg.Format, cfg.Input) IN
            /\ stdinRead' = (stdinRead \/ cfg.Input = "-")
            /\ opened' = IF cfg.Input = "-" THEN opened ELSE opened \cup {cfg.Input}
            /\ handles' = IF cfg.Input = "-" THEN handles
                          ELSE CloseFile(OpenFile(handles, cfg.Input), cfg.Input)
            /\ IF r.kind = "panic"
               THEN /\ err' = Error("panic", {})
                    /\ pc' = "exited"
                    /\ exitStatus' = 2
                    /\ UNCHANGED inputData
               ELSE IF r.kind = "error"
               THEN /\ err' = Error("Decode", IF r.path = "" THEN {}
                                            ELSE {WithString("path", r.path)})
                    /\ pc' = "Cmd"
                    /\ UNCHANGED <<inputData, exitStatus>>
               ELSE /\ inputData' = r.value
                    /\ pc' = "compose"
                    /\ UNCHANGED <<err, exitStatus>>
    /\ UNCHANGED <<libVars, cfg, stream, fs, httpClient, data, calls, request, out, isempty,
                   stdout, outFile, logged>>

\* A variant of the step below that goes on with the decoded input when
\* the composition is refused.
QueryComposeNoReturn ==
    /\ pc = "compose"
    /\ stages' = Append(stages, "compose")
    /\ LET r == Compose(cfg, inputData) IN
       IF r.ok
       THEN /\ data' = r.data
            /\ inputData' = IF cfg.DataField = "" THEN r.data ELSE inputData
            /\ UNCHANGED err
       ELSE /\ err' = Error(ErrInvalidConfiguration, {})
            /\ data' = inputData
            /\ UNCHANGED inputData
    /\ pc' = "Query"
    /\ UNCHANGED <<libVars, cfg, stream, fs, httpClient, calls, request, out, isempty,
                   stdinRead, opened, handles, stdout, outFile, logged, exitStatus>>

\* query: the metadata map and the data to send.
QueryCompose ==
    /\ pc = "compose"
    /\ stages' = Append(stages, "compose")
    /\ LET r == Compose(cfg, inputData) IN
       IF r.ok
       THEN /\ data' = r.data
            /\ inputData' = IF cfg.DataField = "" THEN r.data ELSE inputData
            /\ pc' = "Query"
            /\ UNCHANGED err
       ELSE /\ err' = Error(ErrInvalidConfiguration, {})
            /\ pc' = "Cmd"
            /\ UNCHANGED <<data, inputData>>
    /\ UNCHANGED <<libVars, cfg, stream, fs, httpClient, calls, request, out, isempty,
                   stdinRead, opened, handles, stdout, outFile, logged, exitStatus>>

\* Client.Query up to the call of httpClient.Do: the envelope, the request,
\* the headers of the flags and then Content-Type.
ClientQuerySend ==
    /\ pc = "Query"
    /\ stages' = Append(stages, "Query")
    /\ IF ~Marshalable(data)
       THEN /\ err' = Error("json.Marshal", {WithValue("input", data)})
            /\ pc' = "Cmd"
            /\ UNCHANGED <<calls, request>>
       ELSE /\ request' = [method |-> "POST", url |-> cfg.URL,
                           body |-> RequestBody(data),
                           header |-> HeaderAdd(RequestHeaders(cfg.Headers),
                                                <<"C", "o", "n", "t", "e", "n", "t", "-",
                                                  "T", "y", "p", "e">>,
                                                <<"application/json">>)]
            /\ calls' = calls + 1
            /\ pc' = "Do"
            /\ UNCHANGED err
    /\ UNCHANGED <<libVars, cfg, stream, fs, httpClient, inputData, data, out, isempty,
                   stdinRead, opened, handles, stdout, outFile, logged, exitStatus>>

\* The error of Client.Query when httpClient.Do returns an error, with a
\* variant of another kind.
DoFailedUnexpected(a) == Error(ErrUnexpectedResp, {})
DoFailed(a) == Error(ErrRequestFailed, {})

\* A variant of the step below that calls httpClient.Do a second time when
\* the first call fails.
ClientQueryReceiveRetry ==
    /\ pc = "Do"
    /\ stages' = Append(stages, "Do")
    /\ LET a == httpClient IN
       IF a.kind = "error" /\ calls < 2
       THEN /\ calls' = calls + 1
            /\ pc' = "Do"
            /\ UNCHANGED <<err, out>>
       ELSE IF a.kind = "error"
       THEN /\ err' = DoFailed(a)
            /\ pc' = "Cmd"
            /\ UNCHANGED <<out, calls>>
       ELSE IF ~IsStatusOK(a.status)
       THEN /\ err' = Error(ErrRequestFailed, {WithInt("code", a.status),
                                               WithBody("body", ReadAll(a))})
            /\ pc' = "Cmd"
            /\ UNCHANGED <<out, calls>>
       ELSE IF ~a.readOK \/ ~EnvelopeParses(a.body)
       THEN /\ err' = Error(ErrUnexpectedResp, {WithBody("body", ReadAll(a))})
            /\ pc' = "Cmd"
            /\ UNCHANGED <<out, calls>>
       ELSE /\ out' = ResultInto(EnvelopeResult(a.body))
            /\ pc' = "writeData"
            /\ UNCHANGED <<err, calls>>
    /\ UNCHANGED <<libVars, cfg, stream, fs, httpClient, inputData, data, request,
                   isempty, stdinRead, opened, handles, stdout, outFile, logged,
                   exitStatus>>

\* Client.Query from the return of httpClient.Do to its own return.
ClientQueryReceive ==
    /\ pc = "Do"
    /\ stages' = Append(stages, "Do")
    /\ LET a == httpClient IN
       IF a.kind = "error"
       THEN /\ err' = DoFailed(a)
            /\ pc' = "Cmd"
            /\ UNCHANGED out
       ELSE IF ~IsStatusOK(a.status)
       THEN /\ err' = Error(ErrRequestFailed, {WithInt("code", a.status),
                                               WithBody("body", ReadAll(a))})
            /\ pc' = "Cmd"
            /\ UNCHANGED out
       ELSE IF ~a.readOK \/ ~EnvelopeParses(a.body)
       THEN /\ err' = Error(ErrUnexpectedResp, {WithBody("body", ReadAll(a))})
            /\ pc' = "Cmd"
            /\ UNCHANGED out
       ELSE /\ out' = ResultInto(EnvelopeResult(a.body))
            /\ pc' = "writeData"
            /\ UNCHANGED err
    /\ UNCHANGED <<libVars, cfg, stream, fs, httpClient, inputData, data, calls, request,
                   isempty, stdinRead, opened, handles, stdout, outFile, logged,
                   exitStatus>>

\* A variant of the step below that goes on to the exit decision when the
\* output cannot be created or written.
QueryWriteDataNoReturn ==
    /\ pc = "writeData"
    /\ stages' = Append(stages, "writeData")
    /\ IF cfg.Output # "-" /\ ~fs.create
       THEN /\ err' = Error("os.Create", {WithString("path", cfg.Output)})
            /\ pc' = "exit"
            /\ UNCHANGED <<opened, handles, stdout, outFile>>
       ELSE /\ opened' = IF cfg.Output = "-" THEN opened ELSE opened \cup {cfg.Output}
            /\ handles' = IF cfg.Output = "-" THEN handles
                          ELSE CloseFile(OpenFile(handles, cfg.Output), cfg.Output)
            /\ IF fs.write
               THEN /\ stdout' = IF cfg.Output = "-"
                                 THEN Append(stdout, JSONMarshal(out)) ELSE stdout
                    /\ outFile' = IF cfg.Output = "-" THEN outFile
                                  ELSE [state |-> "created", docs |-> <<JSONMarshal(out)>>]
                    /\ pc' = "exit"
                    /\ UNCHANGED err
               ELSE /\ outFile' = IF cfg.Output = "-" THEN outFile
                                  ELSE [state |-> "created", docs |-> <<>>]
                    /\ err' = Error("Encode", {})
                    /\ pc' = "exit"
                    /\ UNCHANGED stdout
    /\ UNCHANGED <<libVars, cfg, stream, fs, httpClient, inputData, data, calls, request, out,
                   isempty, stdinRead, logged, exitStatus>>

\* query: x.writeData(cfg.Output, out), with the create and the deferred
\* close of the output file.
QueryWriteData ==
    /\ pc = "writeData"
    /\ stages' = Append(stages, "writeData")
    /\ IF cfg.Output # "-" /\ ~fs.create
       THEN /\ err' = Error("os.Create", {WithString("path", cfg.Output)})
            /\ pc' = "Cmd"
            /\ UNCHANGED <<opened, handles, stdout, outFile>>
       ELSE /\ opened' = IF cfg.Output = "-" THEN opened ELSE opened \cup {cfg.Output}
            /\ handles' = IF cfg.Output = "-" THEN handles
                          ELSE CloseFile(OpenFile(handles, cfg.Output), cfg.Output)
            /\ IF fs.write
               THEN /\ stdout' = IF cfg.Output = "-"
                                 THEN Append(stdout, JSONMarshal(out)) ELSE stdout
                    /\ outFile' = IF cfg.Output = "-" THEN outFile
                                  ELSE [state |-> "created", docs |-> <<JSONMarshal(out)>>]
                    /\ pc' = "exit"
                    /\ UNCHANGED err
               ELSE /\ outFile' = IF cfg.Output = "-" THEN outFile
                                  ELSE [state |-> "created", docs |-> <<>>]
                    /\ err' = Error("Encode", {})
                    /\ pc' = "Cmd"
                    /\ UNCHANGED stdout
    /\ UNCHANGED <<libVars, cfg, stream, fs, httpClient, inputData, data, calls, request, out,
                   isempty, stdinRead, logged, exitStatus>>

\* query: the two flag tests on isEmpty(out) and the return.
QueryExit ==
    /\ pc = "exit"
    /\ stages' = Append(stages, "exit")
    /\ isempty' = isEmpty(out)
    /\ err' = ExitDecision(cfg, out)
    /\ pc' = "Cmd"
    /\ UNCHANGED <<libVars, cfg, stream, fs, httpClient, inputData, data, calls, request, out,
                   stdinRead, opened, handles, stdout, outFile, logged, exitStatus>>

\* errors.Is(ErrExitWithNonZero, err) in Cmd, with a variant that never
\* recognises the sentinel.
IsExitWithNonZeroNever(e) == FALSE
IsExitWithNonZero(e) == e.kind = ErrExitWithNonZero

\* Cmd after app.Run: the sentinel is returned as it is, any other error is
\* logged at error level and returned.
CmdReturn ==
    /\ pc = "Cmd"
    /\ stages' = Append(stages, "Cmd")
    /\ logged' = (err.kind # "nil" /\ ~IsExitWithNonZero(err))
    /\ pc' = "main"
    /\ UNCHANGED <<libVars, cfg, stream, fs, httpClient, inputData, data, calls, request, out,
                   isempty, stdinRead, opened, handles, stdout, outFile, err, exitStatus>>

\* The status main leaves with, and a variant that treats the sentinel as
\* success.
ExitCodeSentinelZero(e) == IF e.kind \in {"nil", ErrExitWithNonZero} THEN 0 ELSE 1
ExitCode(e) == IF e.kind = "nil" THEN 0 ELSE 1

\* main: os.Exit(1) on any error of Cmd, status 0 otherwise.
MainExit ==
    /\ pc = "main"
    /\ stages' = Append(stages, "main")
    /\ exitStatus' = ExitCode(err)
    /\ pc' = "exited"
    /\ UNCHANGED <<libVars, cfg, stream, fs, httpClient, inputData, data, calls, request, out,
                   isempty, stdinRead, opened, handles, stdout, outFile, err, logged>>

Next ==
    \/ QueryValidate
    \/ QueryReadData
    \/ QueryCompose
    \/ ClientQuerySend
    \/ ClientQueryReceive
    \/ QueryWriteData
    \/ QueryExit
    \/ CmdReturn
    \/ MainExit

Spec == Init /\ [][Next]_vars

\* ------------------------------------------------- the library package
\* Policy file names and the policy texts the caller writes; the text
\* "broken" does not compile.
PolicyPaths == {"policy/a.rego", "/etc/b.rego"}
PolicyTexts == {"package a", "package b"}

\* filepath.Rel(base, path): the path relative to base, or an error when an
\* absolute path is to be made relative to a relative base.
Rel(base, path) ==
    IF path = "policy/a.rego" /\ base = "policy" THEN [ok |-> TRUE, rel |-> "a.rego"]
    ELSE IF path = "policy/a.rego" /\ base = "." THEN [ok |-> TRUE, rel |-> path]
    ELSE [ok |-> FALSE, rel |-> ""]

\* New, the loop under cfg.relBasePath: a new map of the relative names.
RelPolicy(policy, base) ==
    LET kept == {k \in DOMAIN policy : Rel(base, k).ok} IN
    [r \in {Rel(base, k).rel : k \in kept} |->
        policy[CHOOSE k \in kept : Rel(base, k).rel = r]]

\* ast.CompileModulesWithOpt succeeds on the policy.
Compiles(policy) == \A k \in DOMAIN policy : policy[k] # "broken"

\* The library package alone: a map of the caller behind the Source
\* function (src = 0: a Source that returns an error), no client yet; the
\* command line program is not running.
InitLib ==
    /\ \/ /\ \E keys \in SUBSET PolicyPaths : \E m \in [keys -> {"package a", "broken"}] :
                heap = <<m>>
          /\ src = 1
       \/ /\ heap = <<>>
          /\ src = 0
    /\ client = NoClient
    /\ newErr = ""
    /\ sources = {}
    /\ cfg = DefaultConfig
    /\ stream = <<>>
    /\ fs = AllOK
    /\ httpClient = AnswerAllow
    /\ pc = "library"
    /\ inputData = Unset
    /\ data = Unset
    /\ calls = 0
    /\ request = Unset
    /\ out = GoNil
    /\ isempty = FALSE
    /\ stdinRead = FALSE
    /\ opened = {}
    /\ handles = EmptyFcn
    /\ stdout = <<>>
    /\ outFile = [state |-> "untouched", docs |-> <<>>]
    /\ err = NoError
    /\ logged = FALSE
    /\ stages = <<>>
    /\ exitStatus = -1

\* The variables of the command line program.
procVars == <<cfg, stream, fs, httpClient, pc, inputData, data, calls, request, out,
              isempty, stdinRead, opened, handles, stdout, outFile, err, logged,
              stages, exitStatus>>

\* New(src, WithRelPath(relBasePath)): the policy is the map of the Source
\* itself, or a new map of relative names when relBasePath is set.
ClientNew(relBasePath) ==
    /\ pc = "library"
    /\ client = NoClient
    /\ newErr = ""
    /\ IF src = 0
       THEN /\ newErr' = "failed to create client"
            /\ UNCHANGED <<heap, client>>
       ELSE LET policy == IF relBasePath # "" THEN RelPolicy(heap[src], relBasePath)
                         ELSE heap[src]
            IN  IF ~Compiles(policy)
                THEN /\ newErr' = "failed to compile policy"
                     /\ UNCHANGED <<heap, client>>
                ELSE /\ heap' = IF relBasePath # "" THEN Append(heap, policy) ELSE heap
                     /\ client' = [policy |-> IF relBasePath # "" THEN Len(heap) + 1
                                               ELSE src]
                     /\ UNCHANGED newErr
    /\ UNCHANGED <<src, sources, procVars>>

\* Client.Sources: a new map with the pairs of c.policy.
ClientSources ==
    /\ pc = "library"
    /\ client # NoClient
    /\ Len(heap) < MaxMaps
    /\ heap' = Append(heap, heap[client.policy])
    /\ sources' = sources \cup {Len(heap) + 1}
    /\ UNCHANGED <<src, client, newErr, procVars>>

\* The caller writes m[k] = text into a map it holds: the map of its Source
\* function or a map Sources returned.
CallerSet(ref, k, text) ==
    /\ pc = "library"
    /\ ref \in ({src} \cup sources) \ {0}
    /\ heap' = [heap EXCEPT ![ref] = MapSet(heap[ref], k, text)]
    /\ UNCHANGED <<src, client, newErr, sources, procVars>>

\* The caller deletes a key of a map it holds.
CallerDelete(ref, k) ==
    /\ pc = "library"
    /\ ref \in ({src} \cup sources) \ {0}
    /\ k \in DOMAIN heap[ref]
    /\ heap' = [heap EXCEPT ![ref] = [j \in DOMAIN heap[ref] \ {k} |-> heap[ref][j]]]
    /\ UNCHANGED <<src, client, newErr, sources, procVars>>

NextLib ==
    \/ \E relBasePath \in {"", "policy", "."} : ClientNew(relBasePath)
    \/ ClientSources
    \/ \E ref \in 1..MaxMaps, k \in PolicyPaths, text \in PolicyTexts :
          CallerSet(ref, k, text)
    \/ \E ref \in 1..MaxMaps, k \in PolicyPaths : CallerDelete(ref, k)

SpecLib == InitLib /\ [][NextLib]_vars

\* ------------------------------------------------------------ properties
\* The step s has been taken.
Ran(s) == \E i \in 1..Len(stages) : stages[i] = s

\* What readData returns for the input of this invocation.
Decoded == Decode(stream, cfg.Format, cfg.Input)

\* The input source could be opened (stdin is always there).
InputOpens == cfg.Input = "-" \/ fs.open

\* The document written to the output destination.
Written == IF cfg.Output = "-" THEN stdout[1] ELSE outFile.docs[1]

\* Nothing has reached the output destination.
NothingWritten == stdout = <<>> /\ outFile.state = "untouched"

\* The payload inside the request body.
PayloadSent == request.body.e[TStr("input")]

\* A JSON text that is null, [] or {}.
TextEmpty(x) ==
    \/ x.t = "null"
    \/ x.t = "array" /\ Len(x.q) = 0
    \/ x.t = "object" /\ DOMAIN x.e = {}

C2_IsEmptyExact ==
    Ran("exit") =>
        /\ isempty <=> \/ out.t = "nil"
                       \/ out.t = "[]interface{}" /\ Len(out.q) = 0
                       \/ out.t = "map[string]interface{}" /\ DOMAIN out.m = {}
        /\ out.t \in {"bool", "float64", "string"} => ~isempty

C2_Witness ==
    /\ Ran("exit")
    /\ out \in {GoBool(FALSE), GoFloat64(0, 0), GoString("")}
    /\ ~isempty

\* C3: with no data field, metadata present and decoded input that is no
\* object, query fails with ErrInvalidConfiguration, no request is sent and
\* nothing is written.
C3_NonObjectRefused ==
    (/\ Ran("compose")
     /\ cfg.DataField = ""
     /\ Len(cfg.MetaData) > 0
     /\ Decoded.value.t # "map[string]interface{}")
    => /\ err.kind = ErrInvalidConfiguration
       /\ calls = 0
       /\ request = Unset
       /\ NothingWritten

C3_Witness ==
    /\ Ran("compose")
    /\ cfg.DataField = ""
    /\ Len(cfg.MetaData) > 0
    /\ Decoded.value = GoNilSlice
    /\ pc = "exited"

\* C4: with no data field, metadata present and a decoded object, the
\* payload is the decoded object with the key MetaDataField set to the
\* metadata map: the other keys keep their values, a key of that name in
\* the input is overwritten; and that payload is what the request carries.
C4_MetadataInjected ==
    (/\ Ran("compose")
     /\ cfg.DataField = ""
     /\ Len(cfg.MetaData) > 0
     /\ Decoded.value.t = "map[string]interface{}")
    => LET d == Decoded.value.m
           mf == cfg.MetaDataField
           md == GoStringMap(MetadataMap(cfg.MetaData))
       IN  /\ data.t = "map[string]interface{}"
           /\ DOMAIN data.m = DOMAIN d \cup {mf}
           /\ data.m[mf] = md
           /\ \A k \in DOMAIN d \ {mf} : data.m[k] = d[k]
           /\ calls > 0 =>
                 /\ PayloadSent.t = "object"
                 /\ DOMAIN PayloadSent.e = {TStr(k) : k \in DOMAIN d \cup {mf}}
                 /\ PayloadSent.e[TStr(mf)] = JSONMarshal(md)
                 /\ \A k \in DOMAIN d \ {mf} : PayloadSent.e[TStr(k)] = JSONMarshal(d[k])

C4_Witness ==
    /\ Ran("Query")
    /\ cfg.DataField = ""
    /\ cfg.MetaDataField = "metadata"
    /\ Len(cfg.MetaData) > 0
    /\ stream = <<DocUserMeta>>
    /\ PayloadSent.e[TStr("user")] = TStr("blue")
    /\ PayloadSent.e[TStr("metadata")] = TObj([k \in {TStr("k")} |-> TStr("v")])

\* C5 (as claimed): with a data field and metadata present, for every
\* choice of the two field names the payload is a new object that holds the
\* decoded input under DataField and the metadata map under MetaDataField.
C5_BothPresent ==
    (/\ Ran("compose")
     /\ cfg.DataField # ""
     /\ Len(cfg.MetaData) > 0)
    => /\ data.t = "map[string]interface{}"
       /\ DOMAIN data.m = {cfg.DataField, cfg.MetaDataField}
       /\ data.m[cfg.DataField] = Decoded.value
       /\ data.m[cfg.MetaDataField] = GoStringMap(MetadataMap(cfg.MetaData))

\* C6: with no metadata entries the payload is the decoded input itself
\* when no data field is set, and the one-key object {DataField: decoded}
\* when it is, whatever the shape of the decoded input; the composer adds
\* no MetaDataField key.
C6_NoMetadata ==
    (Ran("compose") /\ Len(cfg.MetaData) = 0)
    => /\ cfg.DataField = "" => data = Decoded.value
       /\ cfg.DataField # "" =>
             /\ data.t = "map[string]interface{}"
             /\ DOMAIN data.m = {cfg.DataField}
             /\ data.m[cfg.DataField] = Decoded.value
       /\ calls > 0 =>
             PayloadSent = IF cfg.DataField = "" THEN JSONMarshal(Decoded.value)
                           ELSE TObj([k \in {TStr(cfg.DataField)} |->
                                         JSONMarshal(Decoded.value)])

C6_Witness ==
    /\ Ran("Query")
    /\ Len(cfg.MetaData) = 0
    /\ cfg.DataField = "mydata"
    /\ stream = <<DocFive>>
    /\ PayloadSent = TObj([k \in {TStr("mydata")} |-> DocFive])

\* Every document of the stream is well formed in the configured format.
AllWellFormed == \A i \in 1..Len(stream) : WellFormed(stream[i], cfg.Format)

RECURSIVE DecimalString(_)
\* The decimal digits of a natural number.
DecimalString(n) ==
    LET digits == <<"0", "1", "2", "3", "4", "5", "6", "7", "8", "9">> IN
    IF n < 10 THEN digits[n + 1]
    ELSE DecimalString(n \div 10) \o digits[(n % 10) + 1]

\* The string representation of a decoded YAML key.
KeyString(k) ==
    CASE k.t = "string" -> k.s
      [] k.t = "bool" -> IF k.b THEN "true" ELSE "false"
      [] k.t = "int" -> DecimalString(k.lo)
      [] OTHER -> "null"

RECURSIVE StringKeyed(_)
\* A decoded YAML value with every mapping turned into a string-keyed one,
\* each key replaced by its string representation, at every depth.
StringKeyed(v) ==
    CASE v.t = "map[interface{}]interface{}" ->
            GoMap([s \in {KeyString(k) : k \in DOMAIN v.e} |->
                      StringKeyed(v.e[CHOOSE k \in DOMAIN v.e : KeyString(k) = s])])
      [] v.t = "[]interface{}" ->
            [v EXCEPT !.q = [n \in 1..Len(v.q) |-> StringKeyed(v.q[n])]]
      [] OTHER -> v

\* The value one well-formed document stands for in the configured format.
DocValue(doc) ==
    IF cfg.Format = "json" THEN JSONUnmarshal(doc) ELSE StringKeyed(YAMLUnmarshal(doc))

RECURSIVE OnlyStringKeys(_)
\* No mapping with keys other than strings, at any depth.
OnlyStringKeys(v) ==
    CASE v.t = "map[interface{}]interface{}" -> FALSE
      [] v.t = "[]interface{}" -> \A n \in 1..Len(v.q) : OnlyStringKeys(v.q[n])
      [] v.t = "map[string]interface{}" -> \A s \in DOMAIN v.m : OnlyStringKeys(v.m[s])
      [] OTHER -> TRUE

\* C7 (as claimed): in both formats, decoding a stream of n well-formed
\* documents yields the document itself when n = 1 and otherwise a
\* sequence of exactly the n documents in stream order.
C7_Collapse ==
    (/\ Ran("readData")
     /\ ~Ran("compose")
     /\ InputOpens
     /\ AllWellFormed)
    => IF Len(stream) = 1
       THEN inputData = DocValue(stream[1])
       ELSE /\ inputData.t = "[]interface{}"
            /\ Len(inputData.q) = Len(stream)
            /\ \A i \in 1..Len(stream) : inputData.q[i] = DocValue(stream[i])

\* C8 (as claimed): decoding well-formed YAML documents succeeds, and every
\* mapping of the decoded value, at every depth, is string-keyed.
C8_StringKeys ==
    (/\ Ran("readData")
     /\ cfg.Format = "yaml"
     /\ InputOpens
     /\ AllWellFormed)
    => /\ err.kind # "panic"
       /\ inputData # Unset
       /\ OnlyStringKeys(inputData)

\* The URL is absolute: it has a scheme and a host.
HasSchemeAndHost(url) == url = AbsoluteURL

\* The rules of the claim on a configuration.
RulesHold(c) ==
    /\ c.URL # "" /\ HasSchemeAndHost(c.URL)
    /\ c.Format \in {"json", "yaml"}
    /\ \A i \in 1..Len(c.Headers) : MatchHeader(c.Headers[i])
    /\ Len(c.MetaData) > 0 => c.MetaDataField # ""
    /\ \A i \in 1..Len(c.MetaData) : MatchMetaData(c.MetaData[i])

\* C9 (as claimed): Validate accepts a configuration exactly when the URL
\* is present and absolute, the format is json or yaml, every header and
\* every metadata entry has its form and the metadata field is not empty
\* when metadata is given; a refusal is an ErrInvalidConfiguration.
C9_ValidateExact ==
    Len(stages) = 1 =>
        /\ pc = "readData" <=> RulesHold(cfg)
        /\ pc # "readData" => err.kind = ErrInvalidConfiguration

\* The transport answers status 200 with a body {"result": X}.
AnswersResult ==
    /\ httpClient.kind = "response"
    /\ httpClient.status = StatusOK
    /\ httpClient.readOK
    /\ httpClient.body.t = "object"
    /\ DOMAIN httpClient.body.e = {TStr("result")}

\* C10 (as claimed): when the transport answers 200 with {"result": X},
\* Query succeeds, and the value delivered, and then written, equals X.
C10_ResultDelivered ==
    (Ran("Do") /\ AnswersResult)
    => /\ err.kind \in {"nil", ErrExitWithNonZero, "os.Create", "Encode"}
       /\ JSONMarshal(out) = httpClient.body.e[TStr("result")]
       /\ Ran("exit") => Written = httpClient.body.e[TStr("result")]

\* The error carries a value under the key.
Carries(key) == \E w \in err.with : w.key = key

\* The transport answers with a status other than 200.
AnswersNotOK == httpClient.kind = "response" /\ httpClient.status # StatusOK

\* C11: when the transport answers with any status other than 200, other
\* 2xx included, Query fails with ErrRequestFailed carrying that status
\* code and the body as far as it could be read; a failed read of the body
\* changes neither the kind nor the code; nothing is written to the output.
C11_NonOKStatus ==
    (Ran("Do") /\ AnswersNotOK)
    => /\ err.kind = ErrRequestFailed
       /\ WithInt("code", httpClient.status) \in err.with
       /\ Carries("body")
       /\ httpClient.readOK => WithBody("body", httpClient.body) \in err.with
       /\ NothingWritten
       /\ ~Ran("writeData")

C11_Witness ==
    /\ Ran("Do")
    /\ httpClient.kind = "response"
    /\ httpClient.status = 201
    /\ ~httpClient.readOK
    /\ err.kind = ErrRequestFailed
    /\ WithInt("code", 201) \in err.with
    /\ cfg.Output = "out.json"
    /\ outFile.state = "untouched"

\* C12: every request handed to the transport is a POST to cfg.URL whose
\* body is the JSON object with the single key "input", and the value under
\* it is the JSON form of the payload composed from the decoded input.
C12_RequestShape ==
    calls > 0
    => /\ request.method = "POST"
       /\ request.url = cfg.URL
       /\ request.body.t = "object"
       /\ DOMAIN request.body.e = {TStr("input")}
       /\ request.body.e[TStr("input")] = JSONMarshal(Compose(cfg, Decoded.value).data)

C12_Witness ==
    /\ calls = 1
    /\ cfg.DataField = "mydata"
    /\ cfg.MetaData = <<MetaKV>>
    /\ cfg.MetaDataField = "metaverse"
    /\ stream = <<DocFive, DocList>>
    /\ request.method = "POST"
    /\ request.url = AbsoluteURL
    /\ request.body =
          TObj([k \in {TStr("input")} |->
                   TObj((TStr("mydata") :> TArr(<<DocFive, DocList>>))
                        @@ (TStr("metaverse") :> TObj([j \in {TStr("k")} |-> TStr("v")])))])

\* Validation, the decoding of the input and the composition all succeed
\* for this invocation.
StagesSucceed ==
    /\ Validate(cfg) = "ok"
    /\ InputOpens
    /\ Decoded.kind = "ok"
    /\ Compose(cfg, Decoded.value).ok

HeaderOfFlag(hdr) ==
    LET p == Index(hdr, ":") IN
    [name |-> Str(CanonicalMIMEHeaderKey(TrimSpace(SubSeq(hdr, 1, p - 1)))),
     value |-> Str(TrimSpace(SubSeq(hdr, p + 1, Len(hdr))))]

\* C14 (as claimed): for every header flag of a validated configuration the
\* request carries a header whose name is the text before the first colon
\* and whose value is all the text after that colon, further colons
\* included, both trimmed of surrounding whitespace.
C14_HeaderValue ==
    calls > 0
    => \A i \in 1..Len(cfg.Headers) :
          \E j \in 1..Len(request.header) : request.header[j] = HeaderOfFlag(cfg.Headers[i])

\* The values a header list holds under Content-Type, in order.
ContentTypes(headers) ==
    LET IsContentType(h) == h.name = "Content-Type"
        picked == SelectSeq(headers, IsContentType)
    IN  [i \in 1..Len(picked) |-> picked[i].value]

\* The headers the flags of the configuration stand for, in order.
FlagHeaders == [i \in 1..Len(cfg.Headers) |-> HeaderOfFlag(cfg.Headers[i])]

\* C15: every request carries Content-Type: application/json, added after
\* all the headers of the flags; the Content-Type values of the flags are
\* kept and come first, in their order, and application/json is the last.
C15_ContentType ==
    calls > 0
    => /\ Len(request.header) = Len(cfg.Headers) + 1
       /\ request.header[Len(request.header)] =
             [name |-> "Content-Type", value |-> "application/json"]
       /\ ContentTypes(request.header) =
             ContentTypes(FlagHeaders) \o <<"application/json">>

C15_Witness ==
    /\ calls > 0
    /\ cfg.Headers = <<HdrContentType, HdrToken>>
    /\ ContentTypes(request.header) = <<"text", "application/json">>

\* C16: when the pipeline ends with the sentinel ErrExitWithNonZero, Cmd
\* returns it without an error-level log entry; when it ends with any other
\* error, Cmd logs at error level and returns that error; a run without
\* error logs nothing at error level.  What Cmd returns is what the
\* pipeline ended with: the exit decision if it came that far, and a
\* failure otherwise.
C16_SentinelNotLogged ==
    Ran("Cmd")
    => /\ logged <=> err.kind \notin {"nil", ErrExitWithNonZero}
       /\ Ran("exit") => err = ExitDecision(cfg, out)
       /\ ~Ran("exit") => err.kind \notin {"nil", ErrExitWithNonZero}

C16_Witness ==
    /\ Ran("Cmd")
    /\ err.kind = ErrExitWithNonZero
    /\ cfg.FailDefined
    /\ ~logged

\* The invocation came through every stage and the exit decision found
\* nothing to report.
Proceeds == Ran("exit") /\ ExitDecision(cfg, out) = NoError

\* C17: the process ends with status zero if and only if the invocation
\* proceeds; a failure of any stage and the sentinel ErrExitWithNonZero both
\* end it with a non-zero status.
C17_ExitStatus ==
    pc = "exited"
    => /\ exitStatus = 0 <=> Proceeds
       /\ err.kind # "nil" => exitStatus # 0

C17_Witness ==
    /\ pc = "exited"
    /\ err.kind = ErrExitWithNonZero
    /\ cfg.FailUndefined
    /\ stdout # <<>>
    /\ exitStatus = 1

\* C18 (as claimed): whenever the invocation has failed with an
\* ErrInvalidConfiguration, no file has been opened, standard input has not
\* been read and no request has been sent.
C18_NoIOBeforeInvalid ==
    err.kind = ErrInvalidConfiguration
    => /\ opened = {}
       /\ ~stdinRead
       /\ calls = 0

\* C18 (amended): whenever the invocation has failed with an
\* ErrInvalidConfiguration, no request has been sent and nothing has been
\* written; if it is the validation of the configuration that failed, no
\* file has been opened and standard input has not been read either, while
\* the refusal to inject metadata into a non-object input comes after the
\* input has been read.
C18_InvalidBeforeRequest ==
    err.kind = ErrInvalidConfiguration
    => /\ calls = 0
       /\ NothingWritten
       /\ Validate(cfg) # "ok" => opened = {} /\ ~stdinRead
       /\ Validate(cfg) = "ok" =>
             /\ Ran("compose")
             /\ stdinRead <=> cfg.Input = "-"
             /\ opened = {cfg.Input} \ {"-"}

C18_Witness ==
    /\ err.kind = ErrInvalidConfiguration
    /\ Validate(cfg) = "--header"
    /\ cfg.Input = "-"
    /\ ~stdinRead
    /\ opened = {}
    /\ calls = 0

\* C19 (as claimed): when json.Marshal refuses the envelope, Query fails
\* with an ErrInvalidInput that carries the payload, and the transport is
\* not called.
C19_SerializeFailure ==
    (Ran("Query") /\ ~Marshalable(data))
    => /\ err.kind = ErrInvalidInput
       /\ WithValue("input", data) \in err.with
       /\ calls = 0

\* The stream holds a document that is malformed in the configured format.
HasMalformed == \E i \in 1..Len(stream) : ~WellFormed(stream[i], cfg.Format)

\* C20 (as claimed): in both formats, when the input is read and a document
\* of the stream is malformed, decoding fails with an error that carries
\* the path of the input, no decoded document is kept and no request is
\* sent.
C20_DecodeErrorPath ==
    (Ran("readData") /\ InputOpens /\ HasMalformed)
    => /\ err.kind = "Decode"
       /\ WithString("path", cfg.Input) \in err.with
       /\ inputData = Unset
       /\ calls = 0

\* What Client.Sources reports: the pairs of the policy of the client.
Reported == heap[client.policy]

\* C21 (as claimed): once New has returned a client, what Sources reports
\* never changes, whatever the caller does to the maps Sources returned or
\* to the map its Source function handed to New.
C21_SourcesFixed == [][client # NoClient => Reported' = Reported]_vars

\* The steps of query in the order of its code.
QuerySteps == <<"Validate", "readData", "compose", "Query", "Do", "writeData", "exit">>

\* The steps of query taken so far, in order.
QueryStepsTaken ==
    LET IsQueryStep(s) == \E i \in 1..Len(QuerySteps) : QuerySteps[i] = s
    IN  SelectSeq(stages, IsQueryStep)

\* C22: within an invocation the stages run in the order validate, decode,
\* compose, query (send, receive), write, decide exit: the steps taken are
\* always a beginning of that list, so each is taken at most once, and
\* while a further step is still to come no step before it has failed.
C22_StageOrder ==
    /\ Len(QueryStepsTaken) <= Len(QuerySteps)
    /\ \A i \in 1..Len(QueryStepsTaken) : QueryStepsTaken[i] = QuerySteps[i]
    /\ \A i \in 1..Len(QuerySteps) :
          pc = QuerySteps[i] => /\ err = NoError
                                /\ Len(QueryStepsTaken) = i - 1

C22_Witness ==
    /\ pc = "exited"
    /\ QueryStepsTaken = QuerySteps
    /\ cfg.DataField = "mydata"

\* The kind of the first failure before the output is written that the
\* inputs of the invocation lead to, "" when there is none.
FirstFailure ==
    IF Validate(cfg) # "ok" THEN ErrInvalidConfiguration
    ELSE IF ~InputOpens THEN "os.Open"
    ELSE IF Decoded.kind = "panic" THEN "panic"
    ELSE IF Decoded.kind = "error" THEN "Decode"
    ELSE IF ~Compose(cfg, Decoded.value).ok THEN ErrInvalidConfiguration
    ELSE IF ~Marshalable(Compose(cfg, Decoded.value).data) THEN "json.Marshal"
    ELSE IF httpClient.kind = "error" \/ httpClient.status # StatusOK THEN ErrRequestFailed
    ELSE IF ~httpClient.readOK \/ ~EnvelopeParses(httpClient.body) THEN ErrUnexpectedResp
    ELSE ""

\* C23: when validation, decoding, composition or the query fails, the
\* invocation ends with the error of that first failure: the later steps
\* are not taken, the output destination is neither created nor written,
\* and the error is neither the sentinel nor nil, up to the exit of the
\* process.
C23_FirstFailureEnds ==
    (pc \in {"Cmd", "main", "exited"} /\ FirstFailure # "")
    => /\ err.kind = FirstFailure
       /\ ~Ran("writeData")
       /\ ~Ran("exit")
       /\ NothingWritten
       /\ cfg.Output \notin opened
       /\ pc = "exited" => exitStatus # 0

C23_Witness ==
    /\ pc = "exited"
    /\ cfg.Output = "out.json"
    /\ cfg.FailDefined
    /\ cfg.FailUndefined
    /\ httpClient.kind = "error"
    /\ err.kind = ErrRequestFailed
    /\ outFile.state = "untouched"
    /\ exitStatus = 1

\* C24: every handle the pipeline has acquired (input file, output file) is
\* closed when the step that acquired it is over, whether the step
\* succeeded or failed in decoding or writing, so none is open when the
\* invocation ends; handles are acquired for the paths opened and for
\* nothing else, and never for "-": standard input and output are neither
\* opened nor closed.
C24_HandlesClosed ==
    /\ \A p \in DOMAIN handles : handles[p] = "closed"
    /\ DOMAIN handles = opened
    /\ "-" \notin opened
    /\ Ran("readData") /\ cfg.Input # "-" /\ fs.open => cfg.Input \in DOMAIN handles
    /\ Ran("writeData") /\ cfg.Output # "-" /\ fs.create => cfg.Output \in DOMAIN handles

C24_Witness ==
    /\ pc = "exited"
    /\ err.kind = "Encode"
    /\ cfg.Input = "in.json"
    /\ cfg.Output = "out.json"
    /\ handles = ("in.json" :> "closed") @@ ("out.json" :> "closed")

\* C25: when httpClient.Do returns an error, be it of the network or the
\* cancellation or the deadline of the context, Query fails with
\* ErrRequestFailed after that one call; no result is taken from a
\* response and nothing is written to the output.
C25_TransportError ==
    (Ran("Do") /\ httpClient.kind = "error")
    => /\ err.kind = ErrRequestFailed
       /\ calls = 1
       /\ out = GoNil
       /\ ~Ran("writeData")
       /\ NothingWritten
       /\ cfg.Output \notin opened

C25_Witness ==
    /\ Ran("Do")
    /\ httpClient = [kind |-> "error", cause |-> "context canceled"]
    /\ err.kind = ErrRequestFailed
    /\ cfg.Output = "out.json"
    /\ pc = "exited"
    /\ outFile.state = "untouched"

\* The body of the answer is no JSON text, or a JSON value that is neither
\* an object nor null.
BodyRefused ==
    \/ ~JSONWellFormed(httpClient.body)
    \/ httpClient.body.t \in {"array", "string", "number", "bool"}

\* C26: when the transport answers 200 and the body cannot be read to its
\* end, or is not a JSON the envelope accepts, Query fails with
\* ErrUnexpectedResp carrying what was read, and nothing is written to the
\* output; the result of an accepted envelope always converts into the
\* interface{} target of query, so the pipeline meets no failure of the
\* third kind.
C26_UnexpectedResponse ==
    /\ (/\ Ran("Do")
        /\ httpClient.kind = "response"
        /\ httpClient.status = StatusOK
        /\ ~httpClient.readOK \/ BodyRefused)
       => /\ err.kind = ErrUnexpectedResp
          /\ WithBody("body", ReadAll(httpClient)) \in err.with
          /\ ~Ran("writeData")
          /\ NothingWritten
          /\ cfg.Output \notin opened
    /\ err.kind = ErrUnexpectedResp => NothingWritten /\ out = GoNil

C26_Witness ==
    /\ Ran("Do")
    /\ httpClient.kind = "response"
    /\ httpClient.status = StatusOK
    /\ httpClient.readOK
    /\ httpClient.body = TArr(<<>>)
    /\ err.kind = ErrUnexpectedResp
    /\ cfg.Output = "out.json"
    /\ outFile.state = "untouched"

\* The key of a metadata entry: the text before its first "=".
EntryKey(meta) == Str(SubSeq(meta, 1, Index(meta, "=") - 1))

\* The value of a metadata entry: all the text after its first "=".
EntryValue(meta) == Str(SubSeq(meta, Index(meta, "=") + 1, Len(meta)))

\* The metadata map inside the payload composed.
MetadataComposed == data.m[cfg.MetaDataField].sm

\* C27: the metadata map of the payload has exactly the keys of the
\* validated entries, each entry cut at its first "=" (the value keeps
\* later "="), and under each key the value of the last entry, in the order
\* of the list, that has this key.
C27_MetadataMapping ==
    (Ran("compose") /\ data # Unset /\ Len(cfg.MetaData) > 0)
    => LET entries == cfg.MetaData
           Last(k) == CHOOSE i \in 1..Len(entries) :
                         /\ EntryKey(entries[i]) = k
                         /\ \A j \in (i + 1)..Len(entries) : EntryKey(entries[j]) # k
       IN  /\ DOMAIN MetadataComposed = {EntryKey(entries[i]) : i \in 1..Len(entries)}
           /\ \A k \in DOMAIN MetadataComposed :
                 MetadataComposed[k] = EntryValue(entries[Last(k)])

C27_Witness ==
    /\ Ran("compose")
    /\ data # Unset
    /\ cfg.MetaData = <<MetaTwoEq, MetaKV>>
    /\ MetadataComposed = ("j" :> "v=w") @@ ("k" :> "v")

\* The output destination refuses the result: the file cannot be created,
\* or the write fails.
OutputFails == (cfg.Output # "-" /\ ~fs.create) \/ ~fs.write

\* C28: the sentinel ErrExitWithNonZero is returned only after the result
\* has been written to the output destination; when writing the output
\* fails the invocation ends with that failure and the exit decision is not
\* taken, whatever the fail flags and the result.
C28_ExitAfterWrite ==
    /\ err.kind = ErrExitWithNonZero
       => /\ Ran("writeData")
          /\ ~OutputFails
          /\ Written = JSONMarshal(out)
    /\ Ran("exit") => Ran("writeData") /\ ~OutputFails
    /\ (Ran("writeData") /\ OutputFails)
       => /\ err.kind = IF cfg.Output # "-" /\ ~fs.create THEN "os.Create" ELSE "Encode"
          /\ ~Ran("exit")
          /\ pc = "exited" => exitStatus = 1

C28_Witness ==
    /\ pc = "exited"
    /\ Ran("writeData")
    /\ ~fs.write
    /\ cfg.FailDefined
    /\ cfg.FailUndefined
    /\ err.kind = "Encode"
    /\ ~Ran("exit")

\* C29: of the invocations that take the exit decision, those with both
\* FailDefined and FailUndefined set all end with ErrExitWithNonZero and
\* exit status 1, and those with neither set all end without error and
\* with exit status 0, whatever the result.
C29_BothOrNeither ==
    Ran("exit")
    => /\ (cfg.FailDefined /\ cfg.FailUndefined)
          => /\ err.kind = ErrExitWithNonZero
             /\ pc = "exited" => exitStatus = 1
       /\ (~cfg.FailDefined /\ ~cfg.FailUndefined)
          => /\ err = NoError
             /\ pc = "exited" => exitStatus = 0

C29_Witness ==
    /\ pc = "exited"
    /\ Ran("exit")
    /\ cfg.FailDefined
    /\ cfg.FailUndefined
    /\ Written = TArr(<<>>)
    /\ err.kind = ErrExitWithNonZero
    /\ exitStatus = 1

\* The transport answers 200 with a JSON object that has no "result" key.
AnswersNoResult ==
    /\ httpClient.kind = "response"
    /\ httpClient.status = StatusOK
    /\ httpClient.readOK
    /\ httpClient.body.t = "object"
    /\ TStr("result") \notin DOMAIN httpClient.body.e

====
